---- MODULE Spec2Model ----
(***************************************************************************)
(* Model of mcp-shopping-list-firestore (main.go): the three MCP tool      *)
(* handlers list_items, upsert_item and remove_item, the                   *)
(* ShoppingListService methods they call, and the Firestore collection     *)
(* the service reads and writes.  Each caller runs one tool invocation at  *)
(* a time; invocations of different callers interleave at the store        *)
(* operations: a handler's work up to the return of its first store       *)
(* operation touches nothing another invocation reads, so it is one step, *)
(* and the ListItems that ends every successful service call is a second. *)
(***************************************************************************)
EXTENDS Integers, Sequences, FiniteSets, TLC

\* ------------------------------------------------------------------------
\* Bounds
\* ------------------------------------------------------------------------

\* How many identifiers uuid.New() hands out in one run.
MaxUuids == 2
\* The last value of the wall clock.
MaxClock == 1

\* The concurrent callers of the transport.
Callers == {"c1", "c2"}
\* Item names and quantities a caller submits.
Names == {"milk", "eggs"}
Quantities == {"2"}

\* ------------------------------------------------------------------------
\* Values
\* ------------------------------------------------------------------------

\* The identifiers uuid.New().String() can return.
Uuids == {"u" \o ToString(i) : i \in 1..MaxUuids}

\* A Go *string: the empty tuple is nil, <<s>> points to s.
Nil == <<>>
Ptr(s) == <<s>>

\* A value of the dynamically typed argument bag: a missing key, a value
\* that is not a string, or a string.
Missing == [kind |-> "missing", val |-> ""]
NotAString == [kind |-> "number", val |-> ""]
Str(s) == [kind |-> "string", val |-> s]

\* The type assertion args[k].(string): ok is true for strings only.
IsString(v) == v.kind = "string"

\* The id arguments the transport can deliver.
IdArgs == {Missing, NotAString, Str("")} \cup {Str(u) : u \in Uuids}

\* The argument bags of upsert_item: every non-empty name with every id and quantity that is
\* missing or a non-empty string, and a sample of the bags with a name, an
\* id or a quantity of another kind.
UpsertArgs ==
    [name : {Str(n) : n \in Names},
     id : {Missing} \cup {Str(u) : u \in Uuids},
     quantity : {Missing} \cup {Str(q) : q \in Quantities}]
    \cup {[name |-> Str("milk"), id |-> Str("u1"), quantity |-> Str("")],
          [name |-> Str("milk"), id |-> Str(""), quantity |-> NotAString],
          [name |-> Str("eggs"), id |-> NotAString, quantity |-> Missing]}
    \cup [name : {Missing, NotAString, Str("")}, id : {Str("u1")},
          quantity : {Str("2")}]

\* The argument bags of remove_item, which reads id alone.
RemoveArgs == [name : {Missing}, id : IdArgs, quantity : {Missing}]

\* The bag of an invocation whose arguments are not observed.
Hidden == [kind |-> "hidden", val |-> ""]
NoArgs == [name |-> Hidden, id |-> Hidden, quantity |-> Hidden]

\* ------------------------------------------------------------------------
\* State
\* ------------------------------------------------------------------------

VARIABLES
    store,     \* the Firestore collection: document key -> document fields
    clock,     \* time.Now()
    issued,    \* the identifiers uuid.New() has returned so far
    removed,   \* history: the keys a Delete has removed a document of
    pc,        \* per caller: "idle", "list" (the service's ListItems is
               \* outstanding) or "returned" (the result is with the caller)
    tool,      \* per caller: the tool of its current or last invocation
    args,      \* per caller: the argument bag of that invocation
    docId,     \* per caller: the id UpsertItem drew from uuid.New()
               \* (args and docId are observed for an invocation that
               \* arrives while no other is outstanding or as a create the
               \* store accepts, until another caller's next invocation
               \* other than such a create)
    applied,   \* history, while ListItems is outstanding: what the
               \* invocation's mutation did: "no" (there was none),
               \* "unchanged" (the collection is as before) or "changed"
    disturbed, \* history, while ListItems is outstanding: another
               \* invocation has changed the store since the mutation
    result,    \* per caller: the CallToolResult returned, <<>> while none
    ops        \* history: the store operations the invocation has issued

vars == <<store, clock, issued, removed, pc, tool, args, docId, applied,
          disturbed, result, ops>>

\* ------------------------------------------------------------------------
\* Item, its Firestore document and its JSON form
\* ------------------------------------------------------------------------

\* ItemToDoc without omitempty: a nil quantity is written as "".
ItemToDoc_NoOmitEmpty(item) ==
    [id |-> item.ID, name |-> item.Name,
     quantity |-> IF item.Quantity = Nil THEN "" ELSE item.Quantity[1],
     created_at |-> item.CreatedAt]

\* Item encoded with its firestore tags: quantity is omitempty, a nil
\* pointer writes no field.
ItemToDoc(item) ==
    IF item.Quantity = Nil
    THEN [id |-> item.ID, name |-> item.Name, created_at |-> item.CreatedAt]
    ELSE [id |-> item.ID, name |-> item.Name, quantity |-> item.Quantity[1],
          created_at |-> item.CreatedAt]

\* d.DataTo(&it): a document without a quantity field leaves the pointer nil.
DataTo(d) ==
    [ID |-> d.id, Name |-> d.name,
     Quantity |-> IF "quantity" \in DOMAIN d THEN Ptr(d.quantity) ELSE Nil,
     CreatedAt |-> d.created_at]

\* MarshalItem without omitempty: a nil quantity is rendered as "".
MarshalItem_NoOmitEmpty(it) ==
    [id |-> it.ID, name |-> it.Name,
     quantity |-> IF it.Quantity = Nil THEN "" ELSE it.Quantity[1],
     created_at |-> it.CreatedAt]

\* Item encoded with its json tags: quantity is omitempty.
MarshalItem(it) ==
    IF it.Quantity = Nil
    THEN [id |-> it.ID, name |-> it.Name, created_at |-> it.CreatedAt]
    ELSE [id |-> it.ID, name |-> it.Name, quantity |-> it.Quantity[1],
          created_at |-> it.CreatedAt]

\* The items ListItems decodes from a collection; the order of GetAll is the
\* store's and carries no meaning, so the slice is modelled as a set.
Decoded(s) == {DataTo(s[k]) : k \in DOMAIN s}

\* ------------------------------------------------------------------------
\* The Firestore collection
\* ------------------------------------------------------------------------

\* One firestore.Update applied to a document: the field at Path is set.
SetField(d, path, value) ==
    [f \in DOMAIN d \cup {path} |-> IF f = path THEN value ELSE d[f]]

RECURSIVE ApplyUpdates(_, _)
ApplyUpdates(d, updates) ==
    IF updates = <<>> THEN d
    ELSE ApplyUpdates(SetField(d, Head(updates).Path, Head(updates).Value),
                      Tail(updates))

\* Doc(id).Create: an insert, AlreadyExists when the key holds a document.
StoreCreate(s, id, doc) ==
    IF id \in DOMAIN s
    THEN [err |-> "AlreadyExists", store |-> s]
    ELSE [err |-> "nil",
          store |-> [k \in DOMAIN s \cup {id} |-> IF k = id THEN doc ELSE s[k]]]

\* StoreUpdate that writes before it finds the document missing.
StoreUpdate_NotFoundAfterWrite(s, id, updates) ==
    IF id \notin DOMAIN s
    THEN [err |-> "NotFound",
          store |-> [k \in DOMAIN s \cup {id} |->
                       IF k = id
                       THEN ApplyUpdates([id |-> id, created_at |-> 0],
                                         updates)
                       ELSE s[k]]]
    ELSE [err |-> "nil",
          store |-> [s EXCEPT ![id] = ApplyUpdates(s[id], updates)]]

\* StoreUpdate as a Set with merge: a missing document is created.
StoreUpdate_Upsert(s, id, updates) ==
    [err |-> "nil",
     store |-> [k \in DOMAIN s \cup {id} |->
                  ApplyUpdates(IF k \in DOMAIN s THEN s[k]
                               ELSE [id |-> id, created_at |-> 0],
                               IF k = id THEN updates ELSE << >>)]]

\* Doc(id).Update: NotFound when the key holds no document.
StoreUpdate(s, id, updates) ==
    IF id \notin DOMAIN s
    THEN [err |-> "NotFound", store |-> s]
    ELSE [err |-> "nil",
          store |-> [s EXCEPT ![id] = ApplyUpdates(s[id], updates)]]

\* StoreDelete with the precondition that the document exists.
StoreDelete_MustExist(s, id) ==
    IF id \notin DOMAIN s
    THEN [err |-> "NotFound", store |-> s]
    ELSE [err |-> "nil", store |-> [k \in DOMAIN s \ {id} |-> s[k]]]

\* Doc(id).Delete without a precondition: succeeds whether or not the key
\* holds a document.
StoreDelete(s, id) ==
    [err |-> "nil", store |-> [k \in DOMAIN s \ {id} |-> s[k]]]

\* ------------------------------------------------------------------------
\* Results
\* ------------------------------------------------------------------------

\* mcp.NewToolResultError(msg), returned with a nil Go error.  msg is the
\* chain of message parts the fmt.Errorf wrappers build.
NewToolResultError(msg) ==
    [isError |-> TRUE, msg |-> msg, items |-> {}, err |-> "nil"]

\* jsonResult(ListItemsResponse{Items: items}).
jsonResult(items) ==
    [isError |-> FALSE, msg |-> <<>>,
     items |-> {MarshalItem(it) : it \in items}, err |-> "nil"]

\* The handler's name in its error messages.
FailedTo(t) ==
    CASE t = "list_items" -> "failed to list items"
      [] t = "upsert_item" -> "failed to upsert item"
      [] t = "remove_item" -> "failed to remove item"

\* ------------------------------------------------------------------------
\* upsert_item: the argument bag coerced to UpsertItemRequest
\* ------------------------------------------------------------------------

ItemReq(a) ==
    [ID |-> IF IsString(a.id) /\ a.id.val # "" THEN Ptr(a.id.val) ELSE Nil,
     Name |-> IF IsString(a.name) THEN a.name.val ELSE "",
     Quantity |-> IF IsString(a.quantity) /\ a.quantity.val # ""
                  THEN Ptr(a.quantity.val) ELSE Nil]

\* UpsertInvalid without the check for the empty string.
UpsertInvalid_TypeOnly(a) ==
    IF ~IsString(a.name) THEN <<"invalid or missing 'name'">> ELSE << >>

\* The validation failure of an upsert_item bag, <<>> when it is valid.
UpsertInvalid(a) ==
    IF ~IsString(a.name) THEN <<"invalid or missing 'name'">>
    ELSE IF ItemReq(a).Name = "" THEN <<"'name' is required">>
    ELSE << >>

\* RemoveInvalid without the check for the empty string.
RemoveInvalid_TypeOnly(a) ==
    IF ~IsString(a.id) THEN <<"invalid or missing 'id'">> ELSE << >>

\* The validation failure of a remove_item bag, <<>> when it is valid.
RemoveInvalid(a) ==
    IF ~IsString(a.id) \/ a.id.val = "" THEN <<"invalid or missing 'id'">>
    ELSE << >>

\* UpsertItem takes the create branch.
IsCreate(req) == req.ID = Nil \/ req.ID[1] = ""

\* Updates that writes quantity whether or not one was submitted.
Updates_AlwaysQuantity(req) ==
    << [Path |-> "name", Value |-> req.Name],
       [Path |-> "quantity",
        Value |-> IF req.Quantity # Nil THEN req.Quantity[1] ELSE ""] >>

\* The field updates of the update branch.
Updates(req) ==
    IF req.Quantity # Nil
    THEN << [Path |-> "name", Value |-> req.Name],
            [Path |-> "quantity", Value |-> req.Quantity[1]] >>
    ELSE << [Path |-> "name", Value |-> req.Name] >>

\* NewUuid that returns the same identifier every time.
NewUuid_Constant(used) == "u1"

\* uuid.New(): an identifier it has not returned before.  Identifiers are
\* opaque to the program, so they are numbered in the order drawn.
NewUuid(used) == "u" \o ToString(Cardinality(used) + 1)

\* ------------------------------------------------------------------------
\* Initial state: an empty collection, no invocation yet
\* ------------------------------------------------------------------------

Init ==
    /\ store = << >>
    /\ clock = 0
    /\ issued = {}
    /\ removed = {}
    /\ pc = [p \in Callers |-> "idle"]
    /\ tool = [p \in Callers |-> "none"]
    /\ args = [p \in Callers |-> NoArgs]
    /\ docId = [p \in Callers |-> ""]
    /\ applied = [p \in Callers |-> "no"]
    /\ disturbed = [p \in Callers |-> FALSE]
    /\ result = [p \in Callers |-> << >>]
    /\ ops = [p \in Callers |-> << >>]

\* ------------------------------------------------------------------------
\* The store as a handler's context meets it
\* ------------------------------------------------------------------------

\* What a store operation can meet: the store executes it and replies in
\* time; the store is unavailable and executes nothing; the store executes
\* it but the reply misses the context's deadline; the store never answers
\* and the deadline of context.WithTimeout passes.
Replies == {"replied", "unavailable", "late", "never"}

\* The store has executed the operation.
Executed(reply) == reply \in {"replied", "late"}

\* The error the client gets from an operation the store answers with err.
ClientErr(reply, err) ==
    CASE reply = "replied" -> err
      [] reply = "unavailable" -> "Unavailable"
      [] reply \in {"late", "never"} -> "DeadlineExceeded"

\* The fmt.Errorf prefix the service puts before a store operation's error.
Wrap(op) ==
    CASE op = "Create" -> "create item"
      [] op = "Update" -> "update item"
      [] op = "Delete" -> "delete item"
      [] op = "GetAll" -> "retrieve items"

\* ------------------------------------------------------------------------
\* Invocations
\* ------------------------------------------------------------------------

\* The per-caller record f when caller p takes a step: p's entry becomes v;
\* the entry of a caller whose result was returned earlier is cleared to
\* none (the handlers keep nothing between invocations, and a returned
\* result is observed only until another caller's next step).
Arrival(f, p, v, none) ==
    [q \in Callers |-> IF q = p THEN v
                       ELSE IF pc[q] = "returned" THEN none
                       ELSE f[q]]

\* Caller p's invocation of tool t with the argument bag a runs from its
\* arrival to the return of its first store operation op.  The handler
\* returns rejected, a validation failure, when there is one; otherwise the
\* operation leaves the collection as s and returns err to the service,
\* which returns it wrapped or goes on to ListItems.
Invoke(p, t, a, rejected, op, id, s, err) ==
    LET outcome == IF rejected # << >> THEN "rejected"
                   ELSE IF op = "GetAll" \/ err = "nil" THEN "list"
                   ELSE "failed"
        changes == outcome # "rejected" /\ s # store
        creates == outcome = "list" /\ op = "Create"
        alone == \A q \in Callers \ {p} : pc[q] # "list"
        observed == alone \/ creates
    IN  /\ pc[p] \in {"idle", "returned"}
        /\ pc' = Arrival(pc, p,
                         IF outcome = "list" THEN "list" ELSE "returned",
                         "idle")
        /\ tool' = Arrival(tool, p, t, "none")
        /\ args' = [q \in Callers |->
                      IF q = p
                      THEN IF observed THEN a ELSE NoArgs
                      ELSE IF pc[q] = "list" /\ creates THEN args[q]
                      ELSE NoArgs]
        /\ docId' = [q \in Callers |->
                       IF q = p
                       THEN IF observed /\ outcome # "rejected" THEN id
                            ELSE ""
                       ELSE IF pc[q] = "list" /\ creates THEN docId[q]
                       ELSE ""]
        /\ applied' = Arrival(applied, p,
                              IF outcome # "list" \/ op = "GetAll" THEN "no"
                              ELSE IF s = store THEN "unchanged"
                              ELSE "changed",
                              "no")
        /\ result' = Arrival(result, p,
                        CASE outcome = "rejected" ->
                               <<NewToolResultError(rejected)>>
                          [] outcome = "failed" ->
                               <<NewToolResultError(
                                   <<FailedTo(t), Wrap(op), err>>)>>
                          [] outcome = "list" -> << >>,
                        << >>)
        /\ ops' = Arrival(ops, p,
                        CASE outcome = "rejected" -> << >>
                          [] outcome = "failed" -> <<op>>
                          [] outcome = "list" ->
                               IF op = "GetAll" THEN <<op>>
                               ELSE <<op, "GetAll">>,
                        << >>)
        /\ store' = IF outcome = "rejected" THEN store ELSE s
        /\ disturbed' = [q \in Callers |->
                           IF q # p /\ pc[q] = "list"
                           THEN disturbed[q] \/ changes
                           ELSE FALSE]

\* ------------------------------------------------------------------------
\* Tool handlers with the service methods they call
\* ------------------------------------------------------------------------

\* list_items: the handler calls service.ListItems.
list_items(p) ==
    /\ Invoke(p, "list_items", NoArgs, << >>, "GetAll", "", store, "nil")
    /\ UNCHANGED <<clock, issued, removed>>

\* upsert_item: the handler extracts and validates the arguments and calls
\* service.UpsertItem, which creates or updates the document.
upsert_item(p, a) ==
    LET req == ItemReq(a)
        rejected == UpsertInvalid(a)
    IN  IF rejected # << >>
        THEN /\ Invoke(p, "upsert_item", a, rejected, "Create", "", store,
                       "nil")
             /\ UNCHANGED <<clock, issued, removed>>
        ELSE IF IsCreate(req)
        THEN /\ Cardinality(issued) < MaxUuids
             /\ \E reply \in Replies :
                  LET now == clock
                      id == NewUuid(issued)
                      item == [ID |-> id, Name |-> req.Name,
                               Quantity |-> req.Quantity, CreatedAt |-> now]
                      r == StoreCreate(store, id, ItemToDoc(item))
                  IN  /\ Invoke(p, "upsert_item", a, rejected, "Create", id,
                                IF Executed(reply) THEN r.store ELSE store,
                                ClientErr(reply, r.err))
                      /\ issued' = issued \cup {id}
                      /\ UNCHANGED <<clock, removed>>
        ELSE /\ \E reply \in Replies :
                  LET r == StoreUpdate(store, req.ID[1], Updates(req))
                  IN  Invoke(p, "upsert_item", a, rejected, "Update", "",
                             IF Executed(reply) THEN r.store ELSE store,
                             ClientErr(reply, r.err))
             /\ UNCHANGED <<clock, issued, removed>>

\* remove_item: the handler extracts and validates id and calls
\* service.RemoveItem, which deletes the document.
remove_item(p, a) ==
    LET id == a.id.val
        rejected == RemoveInvalid(a)
    IN  IF rejected # << >>
        THEN /\ Invoke(p, "remove_item", a, rejected, "Delete", "", store,
                       "nil")
             /\ UNCHANGED <<clock, issued, removed>>
        ELSE /\ \E reply \in Replies :
                  LET r == StoreDelete(store, id)
                  IN  /\ Invoke(p, "remove_item", a, rejected, "Delete", "",
                                IF Executed(reply) THEN r.store ELSE store,
                                ClientErr(reply, r.err))
                      /\ removed' = IF Executed(reply) /\ id \in DOMAIN store
                                    THEN removed \cup {id} ELSE removed
             /\ UNCHANGED <<clock, issued>>

\* Caller p's handler returns res after ListItems.
Return(p, res) ==
    /\ pc' = Arrival(pc, p, "returned", "idle")
    /\ result' = Arrival(result, p, <<res>>, << >>)
    /\ tool' = Arrival(tool, p, tool[p], "none")
    /\ args' = Arrival(args, p, args[p], NoArgs)
    /\ docId' = Arrival(docId, p, docId[p], "")
    /\ applied' = Arrival(applied, p, "no", "no")
    /\ disturbed' = Arrival(disturbed, p, FALSE, FALSE)
    /\ ops' = Arrival(ops, p, ops[p], << >>)
    /\ UNCHANGED <<store, clock, issued, removed>>

\* ListItems, the last call of every service method: GetAll reads the
\* collection, or fails; the handler returns the items as JSON, or the
\* error.
ListItems(p) ==
    /\ pc[p] = "list"
    /\ \E available \in BOOLEAN :
         Return(p, IF available
                   THEN jsonResult(Decoded(store))
                   ELSE NewToolResultError(
                          <<FailedTo(tool[p]), Wrap("GetAll"),
                            "Unavailable">>))

\* Timeout for a context without a deadline.
Timeout_NoDeadline(p) == FALSE /\ UNCHANGED vars

\* The deadline of context.WithTimeout passes while GetAll is outstanding:
\* ListItems returns the context's error.
Timeout(p) ==
    /\ pc[p] = "list"
    /\ Return(p, NewToolResultError(
                   <<FailedTo(tool[p]), Wrap("GetAll"), "DeadlineExceeded">>))

\* Time passes.
Tick ==
    /\ clock < MaxClock
    /\ clock' = clock + 1
    /\ UNCHANGED <<store, issued, removed, pc, tool, args, docId, applied,
                   disturbed, result, ops>>

Next ==
    \/ \E p \in Callers : list_items(p)
    \/ \E p \in Callers : \E a \in UpsertArgs : upsert_item(p, a)
    \/ \E p \in Callers : \E a \in RemoveArgs : remove_item(p, a)
    \/ \E p \in Callers : ListItems(p)
    \/ \E p \in Callers : Timeout(p)
    \/ Tick

Spec == Init /\ [][Next]_vars

\* Every outstanding ListItems ends: the store answers or the deadline of
\* its context passes.
FairSpec == Spec /\ \A p \in Callers : WF_vars(Timeout(p))

TypeOK == clock \in 0..MaxClock

\* ------------------------------------------------------------------------
\* Reading a step
\* ------------------------------------------------------------------------

\* An invocation of caller p arrives in this step (and runs to the return
\* of its first store operation).
Arrives(p) == pc[p] # "list" /\ pc'[p] # "idle" /\ clock' = clock

\* Caller p's outstanding invocation returns in this step.
Returns(p) == pc[p] = "list" /\ pc'[p] = "returned"

\* The result caller p holds.
Res(p) == result[p][1]

\* The last part of an error result's message: the cause.
Cause(r) == r.msg[Len(r.msg)]

\* The messages of the handlers' argument validation.
ValidationMsgs ==
    {<<"invalid or missing 'name'">>, <<"'name' is required">>,
     <<"invalid or missing 'id'">>}

\* The causes of a store operation the store has not answered in time or
\* at all.
Infrastructure == {"Unavailable", "DeadlineExceeded"}

\* The collection s2 holds the documents of s1, unchanged, except at key id.
SameExcept(s1, s2, id) ==
    /\ DOMAIN s1 \ {id} = DOMAIN s2 \ {id}
    /\ \A k \in DOMAIN s1 \ {id} : s2[k] = s1[k]

\* The bag a is an upsert_item create: a non-empty name, an absent or empty
\* id (an id that is not a string is absent to the handler).
CreateBag(a) ==
    /\ a.name.kind = "string" /\ a.name.val # ""
    /\ ~(a.id.kind = "string" /\ a.id.val # "")

\* The bag a is an upsert_item update: a non-empty name and a non-empty id.
UpdateBag(a) ==
    /\ a.name.kind = "string" /\ a.name.val # ""
    /\ a.id.kind = "string" /\ a.id.val # ""

\* The bag a submits a quantity.
Submits(a) == a.quantity.kind = "string" /\ a.quantity.val # ""

\* ------------------------------------------------------------------------
\* Claims
\* ------------------------------------------------------------------------

\* What C1 requires of a step, for caller p.
C1_Step(p) ==
    LET a == args'[p]
        id == docId'[p]
    IN  /\ (Arrives(p) /\ tool'[p] = "upsert_item" /\ a # NoArgs
              /\ CreateBag(a) /\ (pc'[p] = "list" \/ store' # store))
           => /\ id # "" /\ id \notin DOMAIN store /\ id \notin issued
              /\ DOMAIN store' = DOMAIN store \cup {id}
              /\ Cardinality(DOMAIN store') = Cardinality(DOMAIN store) + 1
              /\ \A k \in DOMAIN store : store'[k] = store[k]
              /\ store'[id].id = id
              /\ store'[id].name = a.name.val
              /\ IF Submits(a)
                 THEN DOMAIN store'[id] = {"id", "name", "quantity",
                                           "created_at"}
                      /\ store'[id].quantity = a.quantity.val
                 ELSE DOMAIN store'[id] = {"id", "name", "created_at"}
              /\ store'[id].created_at >= clock
              /\ store'[id].created_at <= clock'
        /\ Returns(p) => store' = store

\* C1: an upsert_item create that the store executes adds exactly one
\* document, under an id no document had and uuid.New() had not returned
\* before, with the submitted name, the submitted quantity (no quantity
\* field when none was submitted) and a created_at not earlier than the
\* start of the call; every document that existed is unchanged, and the
\* list step that follows changes nothing.
C1_CreateAddsOneItem == [][\A p \in Callers : C1_Step(p)]_vars

\* C1 witness: a create with a quantity, made alone at time 1 into a store
\* that held one document, has returned the list of both.
C1_Witness ==
    \E p \in Callers :
        /\ pc[p] = "returned" /\ tool[p] = "upsert_item"
        /\ ~Res(p).isError
        /\ docId[p] = "u2" /\ args[p].quantity = Str("2")
        /\ DOMAIN store = {"u1", "u2"}
        /\ store["u2"].created_at = 1 /\ store["u1"].created_at = 0

\* What C2 requires of a step, for caller p.
C2_Step(p) ==
    LET a == args'[p]
        id == a.id.val
    IN  (Arrives(p) /\ tool'[p] = "upsert_item" /\ a # NoArgs /\ UpdateBag(a)
           /\ (pc'[p] = "list" \/ store' # store))
        => /\ id \in DOMAIN store
           /\ DOMAIN store' = DOMAIN store
           /\ \A k \in DOMAIN store \ {id} : store'[k] = store[k]
           /\ store'[id].name = a.name.val
           /\ store'[id].id = store[id].id
           /\ store'[id].created_at = store[id].created_at
           /\ IF Submits(a)
              THEN DOMAIN store'[id] = DOMAIN store[id] \cup {"quantity"}
                   /\ store'[id].quantity = a.quantity.val
              ELSE /\ DOMAIN store'[id] = DOMAIN store[id]
                   /\ "quantity" \in DOMAIN store[id]
                        => store'[id].quantity = store[id].quantity

\* C2: an upsert_item update that the store executes rewrites the name of
\* the document with that id, rewrites its quantity only when a non-empty
\* quantity was submitted (otherwise the quantity field stays as it was,
\* present or absent), leaves its id and created_at and every other
\* document unchanged, and keeps the number of documents.
C2_UpdateRewritesNameOnly == [][\A p \in Callers : C2_Step(p)]_vars

\* C2 witness: an update with an empty-string quantity has renamed a
\* document from "eggs" to "milk" and returned; the document still has the
\* quantity it was created with.
C2_Witness ==
    \E p \in Callers :
        /\ pc[p] = "returned" /\ tool[p] = "upsert_item"
        /\ ~Res(p).isError
        /\ args[p] = [name |-> Str("milk"), id |-> Str("u1"),
                      quantity |-> Str("")]
        /\ "u1" \in DOMAIN store
        /\ store["u1"].name = "milk"
        /\ "quantity" \in DOMAIN store["u1"] /\ store["u1"].quantity = "2"
        /\ \E it \in Res(p).items : it = store["u1"]
        /\ issued = {"u1"}

\* What C3 requires of a step, for caller p.
C3_Step(p) ==
    LET a == args'[p]
    IN  (Arrives(p) /\ tool'[p] = "upsert_item" /\ a # NoArgs /\ UpdateBag(a)
           /\ a.id.val \notin DOMAIN store)
        => /\ store' = store
           /\ pc'[p] = "returned"
           /\ result'[p][1].isError
           /\ result'[p][1].msg[1] = "failed to upsert item"
           /\ result'[p][1].msg[2] = "update item"
           /\ Cause(result'[p][1]) \in {"NotFound"} \cup Infrastructure

\* C3: an upsert_item with a non-empty id that names no document returns
\* an error result and leaves the store as it was; the error is the
\* store's NotFound unless the store was not reached in time.  An id that
\* remove_item removed earlier is such an id.
C3_UpdateOfMissingIdFails == [][\A p \in Callers : C3_Step(p)]_vars

\* C3 witness: an update of an id that was removed earlier has returned
\* NotFound, and the store holds no document under that id.
C3_Witness ==
    \E p \in Callers :
        /\ pc[p] = "returned" /\ tool[p] = "upsert_item"
        /\ args[p] # NoArgs /\ UpdateBag(args[p])
        /\ args[p].id.val \in removed
        /\ args[p].id.val \notin DOMAIN store
        /\ Res(p).isError /\ Cause(Res(p)) = "NotFound"

\* What C4 requires of a step, for caller p.
C4_Step(p) ==
    LET a == args'[p]
        id == a.id.val
    IN  /\ (Arrives(p) /\ tool'[p] = "remove_item" /\ a # NoArgs
              /\ a.id.kind = "string" /\ id # "")
           => /\ SameExcept(store, store', id)
              /\ id \notin DOMAIN store'
                   \/ (store' = store /\ pc'[p] = "returned")
              /\ pc'[p] = "list" => id \notin DOMAIN store'
              /\ pc'[p] = "list"
                   \/ /\ result'[p][1].isError
                      /\ result'[p][1].msg[2] = "delete item"
                      /\ Cause(result'[p][1]) \in Infrastructure
        /\ (Returns(p) /\ tool[p] = "remove_item" /\ args[p] # NoArgs
              /\ ~disturbed[p] /\ ~result'[p][1].isError)
           => \A it \in result'[p][1].items : it.id # args[p].id.val

\* C4: a remove_item that the store executes removes the document with
\* that id and nothing else; when no document has the id (it was removed
\* before, or never existed) the store stays as it is and the call still
\* goes on to the list: the only errors of remove_item come from
\* validation or from a store that was not reached in time, never from the
\* id naming no document.  The list a remove_item returns alone lacks the
\* id.
C4_RemoveIsIdempotent == [][\A p \in Callers : C4_Step(p)]_vars

\* C4 witness: the store has executed a remove_item of an id that was
\* removed before; the store is unchanged and not empty, and the call goes
\* on to the list.
C4_Witness ==
    \E p \in Callers :
        /\ pc[p] = "list" /\ tool[p] = "remove_item"
        /\ args[p] # NoArgs /\ args[p].id.kind = "string"
        /\ args[p].id.val \in removed
        /\ applied[p] = "unchanged"
        /\ ops[p] = <<"Delete", "GetAll">>
        /\ store # << >>

\* What C5 requires of a step, for caller p.
C5_Step(p) ==
    LET a == args'[p]
    IN  /\ (Arrives(p) /\ a # NoArgs
              /\ \/ tool'[p] = "upsert_item"
                      /\ (a.name.kind # "string" \/ a.name.val = "")
                 \/ tool'[p] = "remove_item"
                      /\ (a.id.kind # "string" \/ a.id.val = ""))
           => /\ store' = store
              /\ issued' = issued
              /\ pc'[p] = "returned"
              /\ ops'[p] = << >>
              /\ result'[p][1].isError
              /\ result'[p][1].msg \in ValidationMsgs
        /\ (Arrives(p) /\ pc'[p] = "returned"
              /\ result'[p][1].msg \in ValidationMsgs)
           => store' = store /\ ops'[p] = << >>

\* C5: upsert_item whose name is missing, not a string or empty, and
\* remove_item whose id is missing, not a string or empty, return a
\* validation error without a store operation, whatever the other
\* arguments: the store is unchanged and no operation was issued.  A
\* validation message is never the result of a call that issued one.
C5_ValidationBeforeStore == [][\A p \in Callers : C5_Step(p)]_vars

\* C5 witness: an upsert_item with an empty name, a valid id and a
\* quantity was rejected while the store held the document of that id.
C5_Witness ==
    \E p \in Callers :
        /\ pc[p] = "returned" /\ tool[p] = "upsert_item"
        /\ args[p] = [name |-> Str(""), id |-> Str("u1"),
                      quantity |-> Str("2")]
        /\ Res(p).isError /\ Res(p).msg = <<"'name' is required">>
        /\ ops[p] = << >>
        /\ "u1" \in DOMAIN store

\* Caller p's observed upsert_item create was accepted by the store.
Created(p) ==
    /\ tool[p] = "upsert_item" /\ args[p] # NoArgs /\ docId[p] # ""
    /\ \/ pc[p] = "list"
       \/ pc[p] = "returned"
            /\ (~Res(p).isError \/ Res(p).msg[2] = "retrieve items")

\* C6: when the creates of two callers overlap, the two documents have
\* distinct ids, the store holds both, each with the name and quantity of
\* its own call, and the list either call returns without error holds
\* both; no create fails because of the other: the only errors of a
\* Create are infrastructure errors, never AlreadyExists.
C6_ConcurrentCreates ==
    /\ \A p \in Callers : \A q \in Callers \ {p} :
         (Created(p) /\ Created(q))
         => /\ docId[p] # docId[q]
            /\ {docId[p], docId[q]} \subseteq DOMAIN store
            /\ \A c \in {p, q} :
                 /\ store[docId[c]].id = docId[c]
                 /\ store[docId[c]].name = args[c].name.val
                 /\ IF Submits(args[c])
                    THEN "quantity" \in DOMAIN store[docId[c]]
                         /\ store[docId[c]].quantity = args[c].quantity.val
                    ELSE "quantity" \notin DOMAIN store[docId[c]]
            /\ (pc[p] = "returned" /\ ~Res(p).isError)
                 => {store[docId[p]], store[docId[q]]}
                      \subseteq Res(p).items
    /\ \A p \in Callers :
         (pc[p] = "returned" /\ Res(p).isError
            /\ Len(Res(p).msg) = 3 /\ Res(p).msg[2] = "create item")
         => Cause(Res(p)) \in Infrastructure

\* C6 witness: two creates with distinct names overlapped; one has returned
\* the list of both documents while the other is still to list.
C6_Witness ==
    \E p \in Callers : \E q \in Callers \ {p} :
        /\ Created(p) /\ Created(q)
        /\ pc[p] = "returned" /\ ~Res(p).isError /\ pc[q] = "list"
        /\ args[p].name # args[q].name
        /\ Cardinality(Res(p).items) = 2

\* What C7 requires of a step, for caller p.
C7_Step(p) ==
    LET r == result'[p][1]
        a == args[p]
    IN  /\ (Arrives(p) /\ pc'[p] = "returned") => r.isError
        /\ (Returns(p) /\ ~r.isError)
           => /\ r.items = {store[k] : k \in DOMAIN store}
              /\ store' = store
              /\ tool[p] \in {"upsert_item", "remove_item"}
                   => /\ applied[p] \in {"changed", "unchanged"}
                      /\ Len(ops[p]) = 2 /\ ops[p][2] = "GetAll"
              /\ (~disturbed[p] /\ a # NoArgs /\ tool[p] = "upsert_item")
                   => \E it \in r.items :
                        /\ it.id = IF docId[p] # "" THEN docId[p]
                                   ELSE a.id.val
                        /\ it.name = a.name.val
                        /\ Submits(a)
                             => "quantity" \in DOMAIN it
                                /\ it.quantity = a.quantity.val
              /\ (~disturbed[p] /\ a # NoArgs /\ tool[p] = "remove_item")
                   => ~ \E it \in r.items : it.id = a.id.val

\* C7: a success result is returned only by the list step, which comes
\* after the call's own mutation, and its items are the documents the
\* store holds at that step.  When no other call has changed the store
\* since the mutation, the list holds the created or updated item with the
\* submitted fields and lacks the removed id.
C7_ResultIsListAfterMutation == [][\A p \in Callers : C7_Step(p)]_vars

\* C7 witness: a remove_item made alone has returned the list of the one
\* document left, which has no quantity.
C7_Witness ==
    \E p \in Callers :
        /\ pc[p] = "returned" /\ tool[p] = "remove_item"
        /\ ~Res(p).isError
        /\ args[p] # NoArgs /\ args[p].id = Str("u1")
        /\ "u1" \in removed
        /\ DOMAIN store = {"u2"}
        /\ Res(p).items = {store["u2"]}
        /\ "quantity" \notin DOMAIN store["u2"]

\* The result caller p holds is one well-formed tool result: a list of
\* items or a structured error, returned with a nil Go error.
OneResult(p) ==
    /\ Len(result[p]) = 1
    /\ Res(p).err = "nil"
    /\ IF Res(p).isError
       THEN Res(p).msg # << >> /\ Res(p).items = {}
       ELSE Res(p).msg = << >>

\* C8: every invocation returns: a call that is at its list step reaches
\* its return even when the store never answers, because the deadline of
\* its context passes; what it returns is exactly one result, the item
\* list or a structured error, with a nil Go error; and a caller that is
\* not inside a call can always invoke a tool again, whatever its last
\* call returned.
C8_EveryCallReturns ==
    /\ \A p \in Callers : (pc[p] = "list") ~> (pc[p] = "returned")
    /\ [](\A p \in Callers :
            /\ pc[p] = "returned" => OneResult(p)
            /\ pc[p] = "list" => result[p] = << >>
            /\ pc[p] # "list" => ENABLED list_items(p))

\* C8 witness: a list_items whose GetAll never answered has returned the
\* deadline error while the store held a document.
C8_Witness ==
    \E p \in Callers :
        /\ pc[p] = "returned" /\ tool[p] = "list_items"
        /\ Res(p).isError
        /\ Res(p).msg = <<"failed to list items", "retrieve items",
                         "DeadlineExceeded">>
        /\ store # << >>

\* Every document has a non-empty name and the id that is its key (so ids
\* are unique among the documents).
C9_Inv ==
    \A k \in DOMAIN store :
        /\ store[k].id = k
        /\ store[k].name # ""
        /\ \A j \in DOMAIN store : store[j].id = store[k].id => j = k

\* C9: from the empty store, every step leads to a store in which every
\* document has a non-empty name and an id equal to its key, and keeps the
\* id and created_at of every document that stays.
C9_ItemInvariants ==
    [][/\ C9_Inv'
       /\ \A k \in DOMAIN store \cap DOMAIN store' :
            /\ store'[k].id = store[k].id
            /\ store'[k].created_at = store[k].created_at]_vars

\* C9 witness: at time 1, an update has renamed a document created at time
\* 0 next to a second document; it still has created_at 0.
C9_Witness ==
    \E p \in Callers :
        /\ pc[p] = "returned" /\ tool[p] = "upsert_item"
        /\ ~Res(p).isError
        /\ args[p] # NoArgs /\ args[p].id = Str("u1")
        /\ args[p].name = Str("eggs")
        /\ clock = 1
        /\ DOMAIN store = {"u1", "u2"}
        /\ store["u1"].created_at = 0 /\ store["u1"].name = "eggs"
        /\ store["u2"].created_at = 1

\* C10 as stated: a write call that returns an error result has not
\* changed the store, whatever the error.
C10_Original ==
    [][\A p \in Callers :
         /\ (Arrives(p) /\ pc'[p] = "returned"
               /\ tool'[p] \in {"upsert_item", "remove_item"}
               /\ result'[p][1].isError)
            => store' = store
         /\ (Returns(p) /\ tool[p] \in {"upsert_item", "remove_item"}
               /\ result'[p][1].isError)
            => applied[p] # "changed"]_vars

\* C10 as amended: a write call that returns a validation error or the
\* store's NotFound or AlreadyExists has not changed the store, and such an
\* error is never returned after the call's mutation; the errors a call can
\* return after its mutation are infrastructure errors: the failure or
\* timeout of the list that follows, and a mutation whose answer did not
\* arrive in time.
C10_DefiniteErrorMeansNoChange ==
    [][\A p \in Callers :
         /\ (Arrives(p) /\ pc'[p] = "returned"
               /\ tool'[p] \in {"upsert_item", "remove_item"}
               /\ result'[p][1].isError
               /\ \/ result'[p][1].msg \in ValidationMsgs
                  \/ Cause(result'[p][1]) \in {"NotFound", "AlreadyExists"})
            => store' = store /\ issued' \in {issued, issued \cup {docId'[p]}}
         /\ (Returns(p) /\ tool[p] \in {"upsert_item", "remove_item"}
               /\ result'[p][1].isError)
            => /\ result'[p][1].msg[2] = "retrieve items"
               /\ Cause(result'[p][1]) \in Infrastructure
         /\ (Arrives(p) /\ pc'[p] = "returned" /\ store' # store)
            => Cause(result'[p][1]) \in Infrastructure]_vars

\* C10 witness: an update of an id that never named a document has
\* returned NotFound while the store held another document.
C10_Witness ==
    \E p \in Callers :
        /\ pc[p] = "returned" /\ tool[p] = "upsert_item"
        /\ Res(p).isError /\ Cause(Res(p)) = "NotFound"
        /\ ops[p] = <<"Update">>
        /\ removed = {} /\ issued = {"u1"}
        /\ DOMAIN store = {"u1"}

====
